---- MODULE Spec2Model ----
(***************************************************************************)
(* Model of the ansibleplay_run resource of terraform-provider-ansibleplay. *)
(*                                                                         *)
(* The repository holds three revisions of the resource:                   *)
(*   "id"    src/unnamed/part_000          random id marker, extra vars,   *)
(*                                         temp-file inventory, inert Read *)
(*   "ts"    src/unnamed/part_001:179-371  timestamp marker, temp-file     *)
(*                                         inventory, Read re-executes     *)
(*   "stdin" src/unnamed/part_001:1-177    timestamp marker, inventory on  *)
(*                                         stdin, Read re-executes         *)
(* The variable `variant` fixes the revision of a behaviour.               *)
(*                                                                         *)
(* A string is a sequence of lexemes.  Host specs and JSON texts are       *)
(* written lexeme by lexeme: " " is one space, "{" "}" ":" "," are the     *)
(* JSON punctuation, StringLits are quoted JSON strings, NumberLits are    *)
(* JSON numbers, NullLit is the literal null, and every other lexeme is a  *)
(* run of characters that is no JSON token (host names, paths, flags).     *)
(***************************************************************************)
EXTENDS Integers, Sequences, FiniteSets, TLC

\* ------------------------------------------------------------------ bounds
MaxHosts == 2
MaxPlanHosts == 1
MaxOps == 3
MaxId == 1
MaxClock == 1
MaxVerbosity == 2

\* ------------------------------------------------------------ JSON lexemes
StringLits == {"k", "j"}
NumberLits == {"1", "2"}
NullLit == "n"
Ws == " "

Range(s) == {s[i] : i \in DOMAIN s}

\* An empty Go map (make(map[string]interface{}) / map[string]interface{}{}).
EmptyMap == [x \in {} |-> <<>>]

\* m[k] = v on a Go map: insert, or overwrite the entry already there.
MapSet(m, k, v) == [x \in (DOMAIN m) \cup {k} |-> IF x = k THEN v ELSE m[x]]

\* The text without its insignificant white space: how a decoded JSON value
\* is written down.
Compact(s) == SelectSeq(s, LAMBDA c : c # Ws)

RECURSIVE SkipWs(_, _)
SkipWs(s, i) == IF i <= Len(s) /\ s[i] = Ws THEN SkipWs(s, i + 1) ELSE i

JsonFail == [ok |-> FALSE, next |-> 0, kind |-> "invalid", map |-> EmptyMap]

\* encoding/json's value scanner: a value starting at or after position i.
\* Returns the position after the value, its kind, and for an object its
\* members (a repeated key keeps the last value).
RECURSIVE ParseValue(_, _), ParseMembers(_, _, _)
ParseValue(s, i) ==
    LET j == SkipWs(s, i) IN
    IF j > Len(s) THEN JsonFail
    ELSE IF s[j] \in StringLits
        THEN [ok |-> TRUE, next |-> j + 1, kind |-> "string", map |-> EmptyMap]
    ELSE IF s[j] \in NumberLits
        THEN [ok |-> TRUE, next |-> j + 1, kind |-> "number", map |-> EmptyMap]
    ELSE IF s[j] = NullLit
        THEN [ok |-> TRUE, next |-> j + 1, kind |-> "null", map |-> EmptyMap]
    ELSE IF s[j] = "{"
        THEN LET k == SkipWs(s, j + 1) IN
             IF k <= Len(s) /\ s[k] = "}"
                 THEN [ok |-> TRUE, next |-> k + 1, kind |-> "object", map |-> EmptyMap]
                 ELSE ParseMembers(s, k, EmptyMap)
    ELSE JsonFail

ParseMembers(s, i, acc) ==
    LET j == SkipWs(s, i) IN
    IF j > Len(s) \/ s[j] \notin StringLits THEN JsonFail
    ELSE LET c == SkipWs(s, j + 1) IN
         IF c > Len(s) \/ s[c] # ":" THEN JsonFail
         ELSE LET v == ParseValue(s, c + 1) IN
              IF ~v.ok THEN JsonFail
              ELSE LET val == Compact(SubSeq(s, SkipWs(s, c + 1), v.next - 1))
                       acc2 == MapSet(acc, s[j], val)
                       e == SkipWs(s, v.next) IN
                   IF e > Len(s) THEN JsonFail
                   ELSE IF s[e] = "," THEN ParseMembers(s, e + 1, acc2)
                   ELSE IF s[e] = "}"
                       THEN [ok |-> TRUE, next |-> e + 1, kind |-> "object", map |-> acc2]
                   ELSE JsonFail

\* json.Unmarshal(text, &m) for m of type map[string]interface{}.  A syntax
\* error or a value that is neither an object nor null is an error; the
\* literal null is accepted and leaves m as it was.
Unmarshal(text, m) ==
    LET v == ParseValue(text, 1) IN
    IF ~v.ok \/ SkipWs(text, v.next) <= Len(text)
        THEN [err |-> TRUE, map |-> m]
    ELSE IF v.kind = "object"
        THEN [err |-> FALSE,
              map |-> [x \in (DOMAIN m) \cup (DOMAIN v.map) |->
                          IF x \in DOMAIN v.map THEN v.map[x] ELSE m[x]]]
    ELSE IF v.kind = "null"
        THEN [err |-> FALSE, map |-> m]
    ELSE [err |-> TRUE, map |-> m]

\* strings.SplitN(s, " ", 2): the text before the first space and, when
\* there is a space, the whole text after it.
RECURSIVE IndexWs(_, _)
IndexWs(s, i) == IF i > Len(s) THEN 0 ELSE IF s[i] = Ws THEN i ELSE IndexWs(s, i + 1)

\* strings.Split(s, " "): the text cut at every space.
RECURSIVE SplitEverySpace(_)
SplitEverySpace(s) ==
    LET i == IndexWs(s, 1) IN
    IF i = 0 THEN <<s>>
    ELSE <<SubSeq(s, 1, i - 1)>> \o SplitEverySpace(SubSeq(s, i + 1, Len(s)))

SplitN2(s) ==
    LET i == IndexWs(s, 1) IN
    IF i = 0 THEN <<s>> ELSE <<SubSeq(s, 1, i - 1), SubSeq(s, i + 1, Len(s))>>

\* basetypes.StringValue.String(): the value in double quotes.
Quoted(s) == <<"\"">> \o s \o <<"\"">>

\* strings.Repeat("v", n)
RECURSIVE Repeat(_, _)
Repeat(c, n) == IF n <= 0 THEN <<>> ELSE <<c>> \o Repeat(c, n - 1)

\* ------------------------------------------------------- framework values
\* types.String: a null flag and the text (ValueString() of null is "").
StringValue(s) == [null |-> FALSE, value |-> s]
StringNull == [null |-> TRUE, value |-> <<>>]

\* The computed marker of a plan before the handler assigns it (unknown).
NoMarker == -1

\* ----------------------------------------------------------------- inputs
Variants == {"id", "ts", "stdin"}

\* Host specs: a bare address, valid attribute objects for one address and
\* for a second one, extra spaces in the attribute text, the literal null, a
\* JSON number, a truncated object and a lexeme that is no JSON.
HostSpecs ==
    { <<"a">>,
      <<"a", " ", "{", "}">>,
      <<"a", " ", "{", "k", ":", "1", "}">>,
      <<"a", " ", " ", "{", "k", ":", " ", "2", "}">>,
      <<"b", " ", "{", "j", ":", "1", "}">>,
      <<"a", " ", "n">>,
      <<"a", " ", "1">>,
      <<"b", " ", "{", "k", ":">>,
      <<"b", " ", "x">> }

\* The host specs the lifecycle specification plans with.
PlanHostSpecs ==
    { <<"a", " ", "{", "k", ":", "1", "}">>,
      <<"b", " ", "x">> }

SeqsUpTo(S, n) == UNION {[1..m -> S] : m \in 0..n}

Playbooks == {<<"p.yml">>, <<"q.yml">>}

ExtraVarsTexts ==
    { <<"{", "k", ":", "1", "}">>, <<"n">>, <<"x">> }

ExtraVarsChoices(v) ==
    IF v = "id" THEN {StringNull} \cup {StringValue(t) : t \in ExtraVarsTexts}
    ELSE {StringNull}

\* What the file system and the external process do when asked.
EnvOutcomes ==
    {"ok", "create_fail", "write_fail", "close_fail",
     "exit_nonzero", "start_fail", "cancelled"}

\* The outcomes the lifecycle specification runs under: one failure of each
\* kind a handler can tell apart.
PlanEnvOutcomes ==
    {"ok", "create_fail", "write_fail", "exit_nonzero", "cancelled"}

Binaries == {<<>>, <<"/usr/bin/ansible-playbook">>}

\* AnsiblePlayProviderModel values the provider hands to the resource.
ProviderData ==
    [AnsiblePlaybookBinary : Binaries, Verbosity : 0..MaxVerbosity]

\* The provider configurations the lifecycle specification runs under: the
\* defaults, and an explicit binary with the highest verbosity.
PlanProviderData ==
    { [AnsiblePlaybookBinary |-> <<>>, Verbosity |-> 0],
      [AnsiblePlaybookBinary |-> <<"/usr/bin/ansible-playbook">>,
       Verbosity |-> MaxVerbosity] }

\* ------------------------------------------------------------------ state
VARIABLES
    variant,      \* the revision of the resource this behaviour runs
    r,            \* the RunResource struct
    configured,   \* Configure has been called
    state,        \* the persisted resource state: <<>> or <<RunResourceModel>>
    invocations,  \* number of calls of c.Run()
    files,        \* number of inventory files created in os.TempDir()
    clock,        \* time.Now(), in seconds
    nops,         \* number of lifecycle operations called
    last,         \* the last lifecycle operation and its response
    call,         \* the provider data and arguments of a direct call of execute
    ret,          \* what that call returned, and what the environment did
    conc          \* concurrent operations: the shared provider data, the
                  \* temp directory and each resource instance's progress

vars == <<variant, r, configured, state, invocations, files, clock, nops,
          last, call, ret, conc>>

\* RunResource{}: the zero value NewRunResource returns.
NewRunResource == [binary |-> <<>>, verbosity |-> 0]

\* RunResource.Configure with provider data pd.  The "stdin" revision
\* assigns the binary only when the type assertion fails, from the zero
\* value, so its field stays empty; it has no verbosity setting.
ConfigureResult(v, pd) ==
    IF v = "stdin" THEN [binary |-> <<>>, verbosity |-> 0]
    ELSE [binary |-> pd.AnsiblePlaybookBinary, verbosity |-> pd.Verbosity]

\* ---------------------------------------------------------------- execute
\* The host loop of execute from element i on: the inventory map built so
\* far is acc.  The first attribute text that does not decode ends the loop
\* with an error naming the address.
RECURSIVE HostLoop(_, _, _, _)
HostLoop(v, hosts, i, acc) ==
    IF i > Len(hosts) THEN [err |-> FALSE, addr |-> <<>>, hosts |-> acc]
    ELSE LET hostAndJsonAttr == SplitN2(hosts[i])
             u == IF Len(hostAndJsonAttr) = 2
                      THEN Unmarshal(hostAndJsonAttr[2], EmptyMap)
                      ELSE [err |-> FALSE, map |-> EmptyMap]
             key == IF v = "stdin" THEN Quoted(hosts[i]) ELSE hostAndJsonAttr[1]
         IN  IF u.err
                 THEN [err |-> TRUE, addr |-> hostAndJsonAttr[1], hosts |-> acc]
                 ELSE HostLoop(v, hosts, i + 1, MapSet(acc, key, u.map))

\* The name of the inventory file as it would be if every call used one
\* fixed path in the temp directory.
TempNameFixed(n) == <<"/tmp/inventory-", "0", ".yml">>

\* tf.Name() of the n-th inventory file: os.CreateTemp gives every call a
\* name no other file has.
TempName(n) == <<"/tmp/inventory-", ToString(n), ".yml">>

\* The argument list execute builds.
Args(v, res, data, checkOnly, inventorySource) ==
    <<data.playbook_file, <<"-i">>, inventorySource>>
    \o (IF v = "stdin" THEN << <<"-">> \o Repeat("v", 2) >> ELSE <<>>)
    \o (IF v = "id" /\ ~data.extra_vars_json.null
            THEN << <<"--extra-vars">>, data.extra_vars_json.value >> ELSE <<>>)
    \o (IF v # "stdin" /\ res.verbosity > 0
            THEN << <<"-">> \o Repeat("v", res.verbosity) >> ELSE <<>>)
    \o (IF v # "id" /\ checkOnly THEN << <<"--check">> >> ELSE <<>>)

\* The binary execute launches.
Binary(res) == IF res.binary = <<>> THEN <<"ansible-playbook">> ELSE res.binary

NoCommand == [binary |-> <<>>, args |-> <<>>, inventory |-> EmptyMap]

\* How the process started by c.Run() ends: it exits with status 0 or with
\* another status, it cannot be started, or the cancelled context kills it.
ProcResult(env) ==
    IF env \in {"exit_nonzero", "start_fail"} THEN env
    ELSE IF env = "cancelled" THEN "killed"
    ELSE "exit0"

\* The error c.Run() returns (empty for nil), and what the process has
\* written to its standard output and standard error by then.  A playbook
\* that succeeds can still print warnings on standard error.
ProcError(env) ==
    IF env = "exit_nonzero" THEN <<"exit status 2">>
    ELSE IF env = "start_fail" THEN <<"exec: executable file not found in $PATH">>
    ELSE IF env = "cancelled" THEN <<"signal: killed">>
    ELSE <<>>

ProcStdout(env) ==
    IF env = "start_fail" THEN <<>>
    ELSE IF env = "ok" THEN <<"PLAY RECAP", " ", "ok=1">>
    ELSE <<"PLAY RECAP", " ", "failed=1">>

ProcStderr(env) ==
    IF env = "start_fail" THEN <<>>
    ELSE IF env = "exit_nonzero" THEN <<"fatal:", " ", "UNREACHABLE!">>
    ELSE IF env = "cancelled" THEN <<"[ERROR]:", " ", "User interrupted execution">>
    ELSE <<"[WARNING]:", " ", "deprecated">>

\* The error of a failed run as it would be if it quoted the standard
\* output buffer.
RunErrorQuotesStdout(env) ==
    <<"ansible play failed: ">> \o ProcError(env) \o <<": ">> \o ProcStdout(env)

\* fmt.Errorf("ansible play failed: %w: %s", err, errBuffer.String())
RunError(env) ==
    <<"ansible play failed: ">> \o ProcError(env) \o <<": ">> \o ProcStderr(env)

\* execute as it would be if the error of a run ended by the cancelled
\* context were dropped.
executeCancelIsSuccess(v, res, data, checkOnly, nfiles, env) ==
    LET hl == HostLoop(v, data.hosts, 1, EmptyMap)
        fileBased == v # "stdin"
        source == IF fileBased THEN TempName(nfiles + 1) ELSE <<"/dev/stdin">>
        cmd == [binary |-> Binary(res),
                args |-> Args(v, res, data, checkOnly, source),
                inventory |-> hl.hosts]
        base == [err |-> "none", addr |-> <<>>, created |-> FALSE,
                 ran |-> FALSE, proc |-> "not_run", msg |-> <<>>,
                 cmd |-> NoCommand, binary |-> res.binary]
    IN  IF hl.err
            THEN [base EXCEPT
                     !.err = "parse", !.addr = hl.addr,
                     !.msg = <<"unable to parse host attributes for '">>
                             \o hl.addr \o <<"'">>]
        ELSE IF fileBased /\ env = "create_fail"
            THEN [base EXCEPT
                     !.err = "create",
                     !.msg = <<"failed to create temporary inventory file">>]
        ELSE IF fileBased /\ env = "write_fail"
            THEN [base EXCEPT
                     !.err = "write", !.created = TRUE,
                     !.msg = <<"failed to write temporary inventory file">>]
        ELSE IF fileBased /\ env = "close_fail"
            THEN [base EXCEPT
                     !.err = "close", !.created = TRUE,
                     !.msg = <<"failed to close temporary inventory file">>]
        ELSE [base EXCEPT
                 !.created = fileBased,
                 !.ran = TRUE,
                 !.proc = ProcResult(env),
                 !.err = IF env \in {"exit_nonzero", "start_fail"}
                             THEN "run" ELSE "none",
                 !.msg = IF env \in {"exit_nonzero", "start_fail"}
                             THEN RunError(env) ELSE <<>>,
                 !.cmd = cmd,
                 !.binary = IF v = "stdin" THEN Binary(res) ELSE res.binary]

\* RunResource.execute(ctx, data[, checkOnly]) on resource struct res, with
\* nfiles inventory files already in the temp directory and env what the
\* file system and the process do.  err is "none" for a nil error.
execute(v, res, data, checkOnly, nfiles, env) ==
    LET hl == HostLoop(v, data.hosts, 1, EmptyMap)
        fileBased == v # "stdin"
        source == IF fileBased THEN TempName(nfiles + 1) ELSE <<"/dev/stdin">>
        cmd == [binary |-> Binary(res),
                args |-> Args(v, res, data, checkOnly, source),
                inventory |-> hl.hosts]
        base == [err |-> "none", addr |-> <<>>, created |-> FALSE,
                 ran |-> FALSE, proc |-> "not_run", msg |-> <<>>,
                 cmd |-> NoCommand, binary |-> res.binary]
    IN  IF hl.err
            THEN [base EXCEPT
                     !.err = "parse", !.addr = hl.addr,
                     !.msg = <<"unable to parse host attributes for '">>
                             \o hl.addr \o <<"'">>]
        ELSE IF fileBased /\ env = "create_fail"
            THEN [base EXCEPT
                     !.err = "create",
                     !.msg = <<"failed to create temporary inventory file">>]
        ELSE IF fileBased /\ env = "write_fail"
            THEN [base EXCEPT
                     !.err = "write", !.created = TRUE,
                     !.msg = <<"failed to write temporary inventory file">>]
        ELSE IF fileBased /\ env = "close_fail"
            THEN [base EXCEPT
                     !.err = "close", !.created = TRUE,
                     !.msg = <<"failed to close temporary inventory file">>]
        ELSE [base EXCEPT
                 !.created = fileBased,
                 !.ran = TRUE,
                 !.proc = ProcResult(env),
                 !.err = IF env \in {"exit_nonzero", "start_fail", "cancelled"}
                             THEN "run" ELSE "none",
                 !.msg = IF env \in {"exit_nonzero", "start_fail", "cancelled"}
                             THEN RunError(env) ELSE <<>>,
                 !.cmd = cmd,
                 !.binary = IF v = "stdin" THEN Binary(res) ELSE res.binary]

\* What a handler that does not call execute reports of it.
NotExecuted ==
    [err |-> "none", addr |-> <<>>, created |-> FALSE, ran |-> FALSE,
     proc |-> "not_run", msg |-> <<>>, cmd |-> NoCommand, binary |-> <<>>]

\* ------------------------------------------------------ lifecycle handlers
\* Each handler yields the diagnostic ("none" when the response has no
\* error), the state of the response and what execute did.  The framework
\* hands Create a response with null state and Read and Update a response
\* holding the prior state; a handler that returns before State.Set leaves
\* that in place.

\* Create as it would be if State.Set ran before the error check.
CreateRespPersistsOnError(v, res, plan, nfiles, env, id, now) ==
    LET e == execute(v, res, plan, FALSE, nfiles, env)
        data == [plan EXCEPT !.marker = IF v = "id" THEN id ELSE now]
    IN  [e |-> e, diag |-> e.err, state |-> <<data>>]

\* Create as it would be if it persisted the parsed addresses in place of
\* the planned host specs.
CreateRespStoresAddresses(v, res, plan, nfiles, env, id, now) ==
    LET e == execute(v, res, plan, FALSE, nfiles, env)
        data == [plan EXCEPT
                    !.marker = IF v = "id" THEN id ELSE now,
                    !.hosts = [i \in DOMAIN plan.hosts |-> SplitN2(plan.hosts[i])[1]]]
    IN  [e |-> e, diag |-> e.err,
         state |-> IF e.err = "none" THEN <<data>> ELSE <<>>]

\* RunResource.Create on planned data plan; id is rand.Int() and now is
\* time.Now().
CreateResp(v, res, plan, nfiles, env, id, now) ==
    LET e == execute(v, res, plan, FALSE, nfiles, env)
        data == [plan EXCEPT !.marker = IF v = "id" THEN id ELSE now]
    IN  [e |-> e, diag |-> e.err,
         state |-> IF e.err = "none" THEN <<data>> ELSE <<>>]

\* RunResource.Read on persisted data.
ReadResp(v, res, data, nfiles, env) ==
    IF v = "id"
        THEN IF ~data.extra_vars_json.null
                /\ Unmarshal(data.extra_vars_json.value, EmptyMap).err
                 THEN [e |-> NotExecuted, diag |-> "extra_vars", state |-> <<data>>]
                 ELSE [e |-> NotExecuted, diag |-> "none", state |-> <<data>>]
        ELSE LET e == execute(v, res, data, FALSE, nfiles, env)
             IN  [e |-> e, diag |-> e.err, state |-> <<data>>]

\* Update as it would be if it stamped the marker on the prior state when
\* execute failed.
UpdateRespStampsOnFailure(v, res, prior, plan, nfiles, env, now) ==
    LET e == execute(v, res, plan, FALSE, nfiles, env)
        data == IF v = "id" THEN plan ELSE [plan EXCEPT !.marker = now]
    IN  [e |-> e, diag |-> e.err,
         state |-> IF e.err = "none" THEN <<data>>
                   ELSE <<[prior EXCEPT !.marker = now + 1]>>]

\* Update as it would be if it returned early when the plan equals the
\* persisted configuration.
UpdateRespSkipsUnchanged(v, res, prior, plan, nfiles, env, now) ==
    LET e == execute(v, res, plan, FALSE, nfiles, env)
        data == IF v = "id" THEN plan ELSE [plan EXCEPT !.marker = now]
    IN  IF plan.hosts = prior.hosts /\ plan.playbook_file = prior.playbook_file
           /\ plan.extra_vars_json = prior.extra_vars_json
            THEN [e |-> NotExecuted, diag |-> "none", state |-> <<prior>>]
            ELSE [e |-> e, diag |-> e.err,
                  state |-> IF e.err = "none" THEN <<data>> ELSE <<prior>>]

\* Update as it would be if it wrote the planned hosts to the state before
\* calling execute.
UpdateRespPartialOnError(v, res, prior, plan, nfiles, env, now) ==
    LET e == execute(v, res, plan, FALSE, nfiles, env)
        data == IF v = "id" THEN plan ELSE [plan EXCEPT !.marker = now]
    IN  [e |-> e, diag |-> e.err,
         state |-> IF e.err = "none" THEN <<data>>
                   ELSE <<[prior EXCEPT !.hosts = plan.hosts]>>]

\* RunResource.Update from persisted data prior to planned data plan.
UpdateResp(v, res, prior, plan, nfiles, env, now) ==
    LET e == execute(v, res, plan, FALSE, nfiles, env)
        data == IF v = "id" THEN plan ELSE [plan EXCEPT !.marker = now]
    IN  [e |-> e, diag |-> e.err,
         state |-> IF e.err = "none" THEN <<data>> ELSE <<prior>>]

\* Delete as it would be if it ran the playbook once more before removal.
DeleteRespExecutes(v, res, data) ==
    LET e == execute(v, res, data, FALSE, 0, "ok")
    IN  [e |-> e, diag |-> e.err, state |-> <<>>]

\* RunResource.Delete: reads the state and returns; the framework then
\* removes the resource from the state.
DeleteResp(v, res, data) ==
    [e |-> NotExecuted, diag |-> "none", state |-> <<>>]

\* The configurations the planner can hand to Create and Update.
Configs(v) ==
    [hosts : SeqsUpTo(PlanHostSpecs, MaxPlanHosts),
     playbook_file : Playbooks,
     extra_vars_json : ExtraVarsChoices(v)]

\* The plan of a configuration: the computed marker is unknown, except that
\* the id of an existing resource is copied from the state
\* (UseStateForUnknown).
PlanOf(v, cfg, st) ==
    [marker |-> IF v = "id" /\ st # <<>> THEN st[1].marker ELSE NoMarker,
     hosts |-> cfg.hosts,
     playbook_file |-> cfg.playbook_file,
     extra_vars_json |-> cfg.extra_vars_json]

HasCheck(args) == <<"--check">> \in Range(args)

\* The record of an operation: its name, the diagnostic, what execute did
\* during it, whether the planned configuration cfg equalled the persisted
\* one, and, for an operation that reported no error, cfg itself.
LastOf(op, resp, cfg, same) ==
    [op |-> op, diag |-> resp.diag, ran |-> resp.e.ran,
     created |-> resp.e.created, proc |-> resp.e.proc, addr |-> resp.e.addr,
     check |-> HasCheck(resp.e.cmd.args), same |-> same,
     cfg |-> IF resp.diag = "none" THEN cfg ELSE <<>>]

\* The configuration part of persisted or planned data.
ConfigOf(data) ==
    [hosts |-> data.hosts, playbook_file |-> data.playbook_file,
     extra_vars_json |-> data.extra_vars_json]

\* The effect of a handler's response on the model state.
Apply(op, resp, cfg, same) ==
    /\ state' = resp.state
    /\ invocations' = invocations + (IF resp.e.ran THEN 1 ELSE 0)
    /\ files' = files + (IF resp.e.created THEN 1 ELSE 0)
    /\ r' = IF resp.e.ran THEN [r EXCEPT !.binary = resp.e.binary] ELSE r
    /\ nops' = nops + 1
    /\ last' = LastOf(op, resp, cfg, same)
    /\ UNCHANGED <<variant, configured, clock, call, ret, conc>>

\* ---------------------------------------------------------------- actions
Init ==
    /\ variant \in Variants
    /\ r = NewRunResource
    /\ configured = FALSE
    /\ state = <<>>
    /\ invocations = 0
    /\ files = 0
    /\ clock = 0
    /\ nops = 0
    /\ last = LastOf("none", [e |-> NotExecuted, diag |-> "none"], <<>>, FALSE)
    /\ call = <<>>
    /\ ret = <<>>
    /\ conc = <<>>

Configure ==
    /\ ~configured
    /\ \E pd \in PlanProviderData : r' = ConfigureResult(variant, pd)
    /\ configured' = TRUE
    /\ UNCHANGED <<variant, state, invocations, files, clock, nops, last, call, ret, conc>>

Create ==
    /\ configured /\ nops < MaxOps
    /\ state = <<>>
    /\ \E cfg \in Configs(variant), env \in PlanEnvOutcomes, id \in 0..MaxId :
          Apply("Create",
                CreateResp(variant, r, PlanOf(variant, cfg, state), files, env, id, clock),
                <<cfg>>, FALSE)

Read ==
    /\ configured /\ nops < MaxOps
    /\ state # <<>>
    /\ \E env \in PlanEnvOutcomes :
          Apply("Read", ReadResp(variant, r, state[1], files, env), <<>>, FALSE)

Update ==
    /\ configured /\ nops < MaxOps
    /\ state # <<>>
    /\ \E cfg \in Configs(variant), env \in PlanEnvOutcomes :
          Apply("Update",
                UpdateResp(variant, r, state[1], PlanOf(variant, cfg, state), files, env, clock),
                <<cfg>>, cfg = ConfigOf(state[1]))

Delete ==
    /\ configured /\ nops < MaxOps
    /\ state # <<>>
    /\ Apply("Delete", DeleteResp(variant, r, state[1]), <<>>, FALSE)

\* Time passes.
Tick ==
    /\ clock < MaxClock
    /\ clock' = clock + 1
    /\ UNCHANGED <<variant, r, configured, state, invocations, files, nops, last, call, ret, conc>>

Next == Configure \/ Create \/ Read \/ Update \/ Delete \/ Tick

Spec == Init /\ [][Next]_vars

\* ------------------------------------------- execute called on its own
\* The data execute can be handed: any list of host specs.
ExecData(v) ==
    [marker : {NoMarker},
     hosts : SeqsUpTo(HostSpecs, MaxHosts),
     playbook_file : Playbooks,
     extra_vars_json : ExtraVarsChoices(v)]

InitExec ==
    /\ variant \in Variants
    /\ configured = TRUE
    /\ state = <<>>
    /\ invocations = 0
    /\ files = 0
    /\ clock = 0
    /\ nops = 0
    /\ last = LastOf("none", [e |-> NotExecuted, diag |-> "none"], <<>>, FALSE)
    /\ \E pd \in ProviderData, d \in ExecData(variant), c \in BOOLEAN :
          /\ (variant = "id" => ~c)
          /\ r = ConfigureResult(variant, pd)
          /\ call = [providerData |-> pd, data |-> d, checkOnly |-> c]
    /\ ret = <<>>
    /\ conc = <<>>

Execute ==
    /\ ret = <<>>
    /\ \E env \in EnvOutcomes :
          LET e == execute(variant, r, call.data, call.checkOnly, files, env) IN
          /\ ret' = <<e, env>>
          /\ invocations' = invocations + (IF e.ran THEN 1 ELSE 0)
          /\ files' = files + (IF e.created THEN 1 ELSE 0)
          /\ r' = IF e.ran THEN [r EXCEPT !.binary = e.binary] ELSE r
    /\ UNCHANGED <<variant, configured, state, clock, nops, last, call, conc>>

NextExec == Execute

SpecExec == InitExec /\ [][NextExec]_vars

\* ------------------------------------------- operations running concurrently
\* Terraform calls the lifecycle operations of distinct resource instances
\* concurrently.  Every call works on a RunResource of its own, made by
\* NewRunResource and configured from the provider data; the calls share the
\* provider data and the temp directory.  An operation is cut into the steps
\* between which another operation can run: the handler's start with the
\* host loop, os.CreateTemp, Encode with Close, c.Run(), and the handler's
\* end with State.Set.
Instances == {"i1", "i2"}

\* The host spec an instance plans with when its hosts parse.
ConcHostSpec(i) ==
    IF i = "i1" THEN <<"a", " ", "{", "k", ":", "1", "}">>
    ELSE <<"b", " ", "{", "j", ":", "1", "}">>

ConcConfigs(v, i) ==
    [hosts : { <<ConcHostSpec(i)>>, << <<"b", " ", "x">> >> },
     playbook_file : {<<"p.yml">>},
     extra_vars_json : {StringNull}]

ConcEnvOutcomes == {"ok", "write_fail", "exit_nonzero"}

ConcIds(v) == IF v = "id" THEN 0..MaxId ELSE {0}

\* An instance between two operations, with persisted state st.
IdleInst(op, diag, st) ==
    [pc |-> "idle", op |-> op, diag |-> diag, state |-> st,
     data |-> <<>>, env |-> "ok", id |-> 0, res |-> NewRunResource,
     inv |-> EmptyMap, tf |-> <<>>, read |-> <<>>, ran |-> FALSE]

InitConc ==
    /\ variant \in Variants
    /\ r = NewRunResource
    /\ configured = TRUE
    /\ state = <<>>
    /\ invocations = 0
    /\ files = 0
    /\ clock = 0
    /\ nops = 0
    /\ last = LastOf("none", [e |-> NotExecuted, diag |-> "none"], <<>>, FALSE)
    /\ call = <<>>
    /\ ret = <<>>
    /\ \E pd \in PlanProviderData :
          conc = [providerData |-> pd, fs |-> EmptyMap,
                  inst |-> [i \in Instances |-> IdleInst("none", "none", <<>>)]]

\* The step of instance i that takes its record to rec.
SetInst(i, rec) == conc' = [conc EXCEPT !.inst[i] = rec]

\* An operation of instance i begins: the framework makes and configures
\* the RunResource, the handler reads the plan or the state, and, where it
\* calls execute, execute runs its host loop.
ConcBegin(i, op, data, env, id) ==
    LET a == conc.inst[i]
        res == ConfigureResult(variant, conc.providerData)
        b == [a EXCEPT !.pc = "respond", !.op = op, !.diag = "none",
                       !.data = <<data>>, !.env = env, !.id = id, !.res = res]
        hl == HostLoop(variant, data.hosts, 1, EmptyMap)
    IN  /\ a.pc = "idle" /\ nops < MaxOps
        /\ nops' = nops + 1
        /\ SetInst(i,
              IF op = "Delete" THEN b
              ELSE IF op = "Read" /\ variant = "id"
                  THEN [b EXCEPT !.diag =
                          IF ~data.extra_vars_json.null
                             /\ Unmarshal(data.extra_vars_json.value, EmptyMap).err
                              THEN "extra_vars" ELSE "none"]
              ELSE IF hl.err THEN [b EXCEPT !.diag = "parse"]
              ELSE [b EXCEPT !.inv = hl.hosts,
                             !.pc = IF variant = "stdin" THEN "written" ELSE "parsed"])
        /\ UNCHANGED <<variant, r, configured, state, invocations, files,
                       clock, last, call, ret>>

ConcCreate(i) ==
    /\ conc.inst[i].state = <<>>
    /\ \E cfg \in ConcConfigs(variant, i), env \in ConcEnvOutcomes, id \in ConcIds(variant) :
          ConcBegin(i, "Create", PlanOf(variant, cfg, <<>>), env, id)

ConcUpdate(i) ==
    /\ conc.inst[i].state # <<>>
    /\ \E cfg \in ConcConfigs(variant, i), env \in ConcEnvOutcomes :
          ConcBegin(i, "Update", PlanOf(variant, cfg, conc.inst[i].state), env, 0)

ConcRead(i) ==
    /\ conc.inst[i].state # <<>>
    /\ \E env \in ConcEnvOutcomes :
          ConcBegin(i, "Read", conc.inst[i].state[1], env, 0)

ConcDelete(i) ==
    /\ conc.inst[i].state # <<>>
    /\ ConcBegin(i, "Delete", conc.inst[i].state[1], "ok", 0)

\* os.CreateTemp(os.TempDir(), "inventory-*.yml"): a new, empty file.
ConcCreateTemp(i) ==
    LET a == conc.inst[i]
        name == TempName(files + 1)
    IN  /\ a.pc = "parsed"
        /\ IF a.env = "create_fail"
               THEN /\ SetInst(i, [a EXCEPT !.pc = "respond", !.diag = "create"])
                    /\ UNCHANGED files
               ELSE /\ conc' = [conc EXCEPT
                                  !.fs = MapSet(conc.fs, name, <<>>),
                                  !.inst[i] = [a EXCEPT !.pc = "created", !.tf = name]]
                    /\ files' = files + 1
        /\ UNCHANGED <<variant, r, configured, state, invocations, clock,
                       nops, last, call, ret>>

\* yaml.NewEncoder(tf).Encode(...) and tf.Close().
ConcWrite(i) ==
    LET a == conc.inst[i] IN
    /\ a.pc = "created"
    /\ IF a.env = "write_fail"
           THEN SetInst(i, [a EXCEPT !.pc = "respond", !.diag = "write"])
           ELSE conc' = [conc EXCEPT
                           !.fs = MapSet(conc.fs, a.tf, <<a.inv>>),
                           !.inst[i] =
                               IF a.env = "close_fail"
                                   THEN [a EXCEPT !.pc = "respond", !.diag = "close"]
                                   ELSE [a EXCEPT !.pc = "written"]]
    /\ UNCHANGED <<variant, r, configured, state, invocations, files, clock,
                   nops, last, call, ret>>

\* c.Run(): the process reads the inventory named by -i (the file, or its
\* standard input) and ends.  The "stdin" revision stores the default binary
\* in its RunResource first.
ConcRun(i) ==
    LET a == conc.inst[i] IN
    /\ a.pc = "written"
    /\ SetInst(i, [a EXCEPT
                      !.pc = "respond",
                      !.ran = TRUE,
                      !.read = IF a.env = "start_fail" THEN <<>>
                               ELSE IF variant = "stdin" THEN <<a.inv>>
                               ELSE conc.fs[a.tf],
                      !.res = IF variant = "stdin"
                                  THEN [a.res EXCEPT !.binary = Binary(a.res)]
                                  ELSE a.res,
                      !.diag = IF a.env \in {"exit_nonzero", "start_fail", "cancelled"}
                                   THEN "run" ELSE "none"])
    /\ invocations' = invocations + 1
    /\ UNCHANGED <<variant, r, configured, state, files, clock, nops, last,
                   call, ret>>

\* The handler's end: on an error it returns with the response state the
\* framework put there; otherwise it sets the marker where the operation
\* has one to set and calls State.Set.
ConcRespond(i) ==
    LET a == conc.inst[i]
        data == a.data[1]
        st == IF a.op = "Delete" THEN <<>>
              ELSE IF a.op = "Read" THEN a.state
              ELSE IF a.diag # "none" THEN (IF a.op = "Create" THEN <<>> ELSE a.state)
              ELSE IF a.op = "Create"
                  THEN <<[data EXCEPT !.marker = IF variant = "id" THEN a.id ELSE clock]>>
              ELSE IF variant = "id" THEN <<data>>
              ELSE <<[data EXCEPT !.marker = clock]>>
    IN  /\ a.pc = "respond"
        /\ SetInst(i, IdleInst(a.op, a.diag, st))
        /\ UNCHANGED <<variant, r, configured, state, invocations, files,
                       clock, nops, last, call, ret>>

NextConc ==
    \/ \E i \in Instances :
          \/ ConcCreate(i) \/ ConcUpdate(i) \/ ConcRead(i) \/ ConcDelete(i)
          \/ ConcCreateTemp(i) \/ ConcWrite(i) \/ ConcRun(i) \/ ConcRespond(i)
    \/ Tick

SpecConc == InitConc /\ [][NextConc]_vars

\* ================================================================= claims
\* A step of a lifecycle operation.
OpStep == nops' = nops + 1

MarkerOf(st) == IF st = <<>> THEN NoMarker ELSE st[1].marker

\* The text is one JSON object and nothing else.
IsJsonObject(text) ==
    LET v == ParseValue(text, 1) IN
    v.ok /\ SkipWs(text, v.next) > Len(text) /\ v.kind = "object"

\* C1: a Create whose host decoding, inventory writing or process fails (or
\* is cancelled) reports an error and persists nothing; state exists after a
\* Create only when the process exited with status 0.
C1_CreateFailurePersistsNothing ==
    last.op = "Create" =>
        /\ (last.proc # "exit0" => last.diag # "none")
        /\ (last.diag # "none" => state = <<>>)
        /\ (state # <<>> => last.proc = "exit0")

\* A Create that failed while writing its inventory file.
C1_Witness ==
    last.op = "Create" /\ last.diag = "write" /\ last.created /\ state = <<>>

\* C2: the marker of a persisted state differs from the previous marker
\* only across a Create or Update step that called the external process, and
\* a Read step leaves the marker as it was.  (A Delete removes the state and
\* with it the marker; no marker is persisted after it.)
C2_MarkerChangesOnlyOnRun ==
    [][ /\ (state' # <<>> /\ MarkerOf(state') # MarkerOf(state)) =>
              (OpStep /\ last'.op \in {"Create", "Update"} /\ last'.ran)
        /\ (OpStep /\ last'.op = "Read") => MarkerOf(state') = MarkerOf(state)
      ]_vars

\* A Read that re-ran the playbook later than the marker's time and kept
\* the marker.
C2_Witness ==
    /\ last.op = "Read" /\ last.ran /\ last.diag = "none"
    /\ state # <<>> /\ state[1].marker < clock

\* C3: a Delete step calls the external process zero times and creates no
\* inventory file, whatever the persisted state.
C3_DeleteNeverExecutes ==
    [][ (OpStep /\ last'.op = "Delete") =>
            /\ invocations' = invocations
            /\ files' = files
            /\ ~last'.ran /\ ~last'.created
      ]_vars

\* A Delete of a resource whose playbook had been run.
C3_Witness ==
    last.op = "Delete" /\ state = <<>> /\ invocations > 0

\* C4 (as claimed): in the revision with extra_vars_json, a Read reports the
\* attribute error exactly when the persisted extra_vars_json is set and is
\* not a JSON object, and succeeds otherwise.
C4_ReadRejectsNonObject ==
    (variant = "id" /\ last.op = "Read") =>
        LET ev == state[1].extra_vars_json IN
        IF ~ev.null /\ ~IsJsonObject(ev.value)
            THEN last.diag = "extra_vars"
            ELSE last.diag = "none"

\* C5 (as claimed): every Create and Update whose host specs all parse calls
\* the external process exactly once.
C5_Original ==
    [][ (OpStep /\ last'.op \in {"Create", "Update"} /\ last'.diag # "parse") =>
            invocations' = invocations + 1
      ]_vars

\* C5 (amended): every Create and Update whose host specs all parse and
\* whose inventory file is created, written and closed without error calls
\* the external process exactly once, also when the plan equals the state;
\* otherwise it calls it zero times.  No operation calls it twice.
C5_LaunchExactlyOnce ==
    [][ (OpStep /\ last'.op \in {"Create", "Update"}) =>
            invocations' = invocations +
                (IF last'.diag \in {"parse", "create", "write", "close"}
                     THEN 0 ELSE 1)
      ]_vars

\* An Update whose plan equalled the persisted configuration and that ran
\* the playbook again.
C5_Witness ==
    last.op = "Update" /\ last.same /\ last.ran /\ invocations >= 2

\* C6: an Update or a Read that ends with an error leaves the persisted
\* state as it was, marker included; a successful Update persists the whole
\* planned configuration with a marker, a successful Read the same state.
C6_AtomicReplace ==
    [][ (OpStep /\ last'.op \in {"Update", "Read"}) =>
            IF last'.diag # "none" \/ last'.op = "Read"
                THEN state' = state
                ELSE /\ state' # <<>>
                     /\ ConfigOf(state'[1]) = last'.cfg[1]
                     /\ state'[1].marker # NoMarker
      ]_vars

\* A failed Update whose plan differed from the persisted configuration.
C6_Witness ==
    last.op = "Update" /\ last.diag = "run" /\ ~last.same /\ state # <<>>

\* C7: when the context is cancelled while the process runs during Create
\* or Update, the process is killed, the operation reports an error and the
\* persisted state stays what it was (absent for Create).
C7_CancelNeverApplies ==
    [][ (OpStep /\ last'.op \in {"Create", "Update"} /\ last'.proc = "killed") =>
            /\ last'.diag = "run"
            /\ state' = state
      ]_vars

\* A cancelled Create.
C7_Witness ==
    last.op = "Create" /\ last.proc = "killed" /\ state = <<>>

\* C8 (as claimed): a Read that calls the external process passes --check.
C8_ReadOnlyDryRun ==
    (last.op = "Read" /\ last.ran) => last.check

\* The address of the i-th host spec and its decoded attributes.
AddressOf(hosts, i) == SplitN2(hosts[i])[1]

AttributesOf(hosts, i) ==
    IF Len(SplitN2(hosts[i])) = 2
        THEN Unmarshal(SplitN2(hosts[i])[2], EmptyMap).map
        ELSE EmptyMap

LastIndexOf(hosts, a) ==
    CHOOSE i \in DOMAIN hosts :
        /\ AddressOf(hosts, i) = a
        /\ \A j \in DOMAIN hosts : AddressOf(hosts, j) = a => j <= i

\* C9 (as claimed): the inventory handed to the process has exactly the
\* distinct addresses as keys, each with the attributes of its last
\* occurrence in the list.
C9_InventoryLastWins ==
    (ret # <<>> /\ ret[1].ran) =>
        LET hosts == call.data.hosts
            inv == ret[1].cmd.inventory
            addrs == {AddressOf(hosts, i) : i \in DOMAIN hosts}
        IN  /\ DOMAIN inv = addrs
            /\ \A a \in addrs : inv[a] = AttributesOf(hosts, LastIndexOf(hosts, a))

\* The elements whose attribute segment is not a JSON object.
BadHosts(hosts) ==
    {i \in DOMAIN hosts :
        /\ Len(SplitN2(hosts[i])) = 2
        /\ ~IsJsonObject(SplitN2(hosts[i])[2])}

\* C10 (as claimed): when an element's attribute segment is not a JSON
\* object, execute fails with an error naming such an element's address,
\* creates no inventory file and does not call the process.
C10_BadAttributesAbort ==
    (ret # <<>> /\ BadHosts(call.data.hosts) # {}) =>
        /\ ret[1].err = "parse"
        /\ ret[1].addr \in {AddressOf(call.data.hosts, i) : i \in BadHosts(call.data.hosts)}
        /\ ~ret[1].created /\ ~ret[1].ran
        /\ files = 0 /\ invocations = 0

\* The position of the first space of a text, 0 when it has none.
FirstSpace(s) ==
    IF \E i \in DOMAIN s : s[i] = " "
        THEN CHOOSE i \in DOMAIN s :
                 s[i] = " " /\ \A j \in 1..(i - 1) : s[j] # " "
        ELSE 0

\* C11: each host spec is cut at its first space only.  The address is the
\* text before that space and the whole rest, further spaces included, is
\* decoded as the attribute object; a spec without a space is its own
\* address, with no attributes.  The address shows in the error of a spec
\* whose rest does not decode, and as the inventory key in the revisions
\* that key the inventory by address; the attributes show in the inventory.
C11_SplitAtFirstSpace ==
    ret # <<>> =>
        LET hosts == call.data.hosts
            inv == ret[1].cmd.inventory
            address(i) ==
                IF FirstSpace(hosts[i]) = 0 THEN hosts[i]
                ELSE SubSeq(hosts[i], 1, FirstSpace(hosts[i]) - 1)
            decoded(i) ==
                IF FirstSpace(hosts[i]) = 0 THEN [err |-> FALSE, map |-> EmptyMap]
                ELSE Unmarshal(SubSeq(hosts[i], FirstSpace(hosts[i]) + 1,
                                      Len(hosts[i])), EmptyMap)
        IN  /\ ret[1].err = "parse" =>
                  \E i \in DOMAIN hosts :
                      /\ decoded(i).err
                      /\ \A j \in 1..(i - 1) : ~decoded(j).err
                      /\ ret[1].addr = address(i)
            /\ ret[1].err # "parse" => \A i \in DOMAIN hosts : ~decoded(i).err
            /\ ret[1].ran =>
                  \A i \in DOMAIN hosts :
                      (\A j \in DOMAIN hosts : j > i => address(j) # address(i)) =>
                          \E key \in DOMAIN inv :
                              /\ inv[key] = decoded(i).map
                              /\ variant # "stdin" => key = address(i)

\* A run whose host list has a spec with spaces after the first one and a
\* spec without any space.
C11_Witness ==
    /\ ret # <<>> /\ ret[1].ran /\ variant = "ts"
    /\ call.data.hosts = << <<"b", " ", "{", "j", ":", "1", "}">>,
                            <<"a", " ", " ", "{", "k", ":", " ", "2", "}">> >>
    /\ ret[1].cmd.inventory[<<"a">>] = MapSet(EmptyMap, "k", <<"2">>)

\* text occurs in msg, lexeme for lexeme.
Contains(msg, text) ==
    \E i \in 0..(Len(msg) - Len(text)) : SubSeq(msg, i + 1, i + Len(text)) = text

\* C12: what execute returns after it has called the process follows from
\* how the process ended and from nothing else: no error when it exited
\* with status 0 (whatever it printed), and otherwise (another status, not
\* started, killed) an error whose message holds the error of the run and
\* the text the process wrote to standard error.
C12_OutcomeFollowsProcess ==
    (ret # <<>> /\ ret[1].ran) =>
        IF ProcResult(ret[2]) = "exit0"
            THEN ret[1].err = "none" /\ ret[1].msg = <<>>
            ELSE /\ ret[1].err = "run"
                 /\ ProcError(ret[2]) # <<>>
                 /\ Contains(ret[1].msg, ProcError(ret[2]))
                 /\ Contains(ret[1].msg, ProcStderr(ret[2]))

\* A run that exited with a non-zero status after writing to standard
\* error.
C12_Witness ==
    /\ ret # <<>> /\ ret[1].ran /\ ret[2] = "exit_nonzero"
    /\ ProcStderr(ret[2]) # <<>> /\ ret[1].msg # <<>>

C14_IdNonZeroAndStable ==
    [][ (variant = "id" /\ OpStep) =>
            /\ (last'.op = "Create" /\ last'.diag = "none") =>
                   (state' # <<>> /\ state'[1].marker # 0)
            /\ (last'.op \in {"Read", "Update"}) =>
                   MarkerOf(state') = MarkerOf(state)
      ]_vars

\* An argument that is a verbosity flag: "-" followed by one or more "v".
IsVerbosityFlag(a) ==
    Len(a) >= 2 /\ a[1] = "-" /\ \A j \in 2..Len(a) : a[j] = "v"

\* C15 (as claimed): the argument list starts with the playbook path, "-i"
\* and the inventory source; "--extra-vars" followed by the raw text is in
\* it exactly when extra_vars_json is set; a verbosity flag is in it exactly
\* when the provider's verbosity is above 0, and it is "-" followed by that
\* many "v".
C15_ArgumentList ==
    (ret # <<>> /\ ret[1].ran) =>
        LET args == ret[1].cmd.args
            data == call.data
            verbosity == call.providerData.Verbosity
        IN  /\ Len(args) >= 3
            /\ args[1] = data.playbook_file
            /\ args[2] = <<"-i">>
            /\ args[3] = IF variant = "stdin" THEN <<"/dev/stdin">>
                         ELSE TempName(files)
            /\ (~data.extra_vars_json.null) <=>
                   (\E i \in DOMAIN args : args[i] = <<"--extra-vars">>)
            /\ \A i \in DOMAIN args :
                   args[i] = <<"--extra-vars">> =>
                       (i < Len(args) /\ args[i + 1] = data.extra_vars_json.value)
            /\ (verbosity > 0) <=>
                   (\E i \in DOMAIN args : IsVerbosityFlag(args[i]))
            /\ \A i \in DOMAIN args :
                   IsVerbosityFlag(args[i]) =>
                       args[i] = <<"-">> \o Repeat("v", verbosity)

\* C17 (as claimed): the binary execute launches is the one of the provider
\* configuration: the configured ansible_playbook_binary when there is one,
\* and "ansible-playbook" only when there is none.
C17_BinaryAsConfigured ==
    (ret # <<>> /\ ret[1].ran) =>
        ret[1].cmd.binary =
            IF call.providerData.AnsiblePlaybookBinary # <<>>
                THEN call.providerData.AnsiblePlaybookBinary
                ELSE <<"ansible-playbook">>

\* What the operation instance record a is in would give were it the only
\* one running: the handler as one step, under the same provider data,
\* file system and process behaviour, id draw and clock.
Solo(a) ==
    LET res == ConfigureResult(variant, conc.providerData) IN
    IF a.op = "Create"
        THEN CreateResp(variant, res, a.data[1], 0, a.env, a.id, clock)
    ELSE IF a.op = "Update"
        THEN UpdateResp(variant, res, a.state[1], a.data[1], 0, a.env, clock)
    ELSE IF a.op = "Read"
        THEN ReadResp(variant, res, a.state[1], 0, a.env)
    ELSE DeleteResp(variant, res, a.state[1])

\* C16: whatever the interleaving of the operations of two instances, an
\* operation ends with the state, marker and diagnostic it would have had
\* alone, its process was called as it would have been alone and read the
\* inventory of its own hosts; a step of one instance leaves the other
\* instance's record alone, and no step changes the shared provider data.
C16_InstancesIsolated ==
    [][ /\ conc'.providerData = conc.providerData
        /\ \A i \in Instances :
              LET a == conc.inst[i]
                  b == conc'.inst[i]
              IN  /\ (a # b) =>
                        \A j \in Instances \ {i} : conc'.inst[j] = conc.inst[j]
                  /\ (a.pc = "respond" /\ b.pc = "idle") =>
                        /\ b.state = Solo(a).state
                        /\ b.diag = Solo(a).diag
                        /\ a.ran = Solo(a).e.ran
                        /\ a.ran => a.read = <<Solo(a).e.cmd.inventory>>
      ]_vars

\* Instance i2 created its inventory file first and has not run its process
\* yet; meanwhile instance i1 went through a whole Create.
C16_Witness ==
    /\ conc.inst["i2"].pc = "written" /\ conc.inst["i2"].tf = TempName(1)
    /\ conc.inst["i1"].pc = "idle" /\ conc.inst["i1"].op = "Create"
    /\ conc.inst["i1"].state # <<>>
    /\ files = 2
====
